---- MODULE Spec2Model ----
(***************************************************************************)
(* Model of pyatmo/climate.py: the registry of Netatmo homes               *)
(* (AbstractClimate.homes), the topology builder (NetatmoHome.__init__),   *)
(* the status reconciler (NetatmoHome.update, NetatmoModule.update with    *)
(* its cascade over bridged modules, NetatmoRoom.update), the refresh      *)
(* cycle and the two commands.                                             *)
(*                                                                         *)
(* Python values are modelled as follows.  A dict is a function whose      *)
(* DOMAIN is its key set; a list is a sequence; an optional value          *)
(* (x | None) is a sequence of length at most one: None is << >> and the   *)
(* value v is <<v>>.  A raised exception is the name of its class in the   *)
(* result of the call; "ok" is a normal return.                            *)
(***************************************************************************)
EXTENDS Naturals, Sequences, FiniteSets, TLC

VARIABLES
    classHomes,   \* AbstractClimate.homes, the class attribute (a defaultdict):
                  \* home id -> the key set of the plain dict stored there
    selfHomes,    \* the instance attribute self.homes: << >> while unset
    last,         \* the last call made on the instance and how it ended
    tasks         \* the coroutines of the instance: task id -> where the
                  \* coroutine is suspended and what it has done so far

vars == <<classHomes, selfHomes, last, tasks>>

-----------------------------------------------------------------------------
(* Bounds of the model.                                                    *)

\* Deepest nesting of NetatmoModule.update calls the interpreter allows
\* (sys.getrecursionlimit() frames in CPython, 1000 by default); one more
\* raises RecursionError.  The acyclic homes of the inputs have chains of at
\* most RecursionLimit modules, so that, as in CPython with the homes of an
\* account, only a cyclic bridge graph reaches the limit.
RecursionLimit == 4

\* Most entries (errors + home.modules + home.rooms) of one status payload.
MaxEntries == 2

\* The coroutines of the instance that can be suspended at one time.
TaskIds == {"t1", "t2"}

-----------------------------------------------------------------------------
(* Python primitives.                                                      *)

None == << >>

Some(v) == <<v>>

\* dict.get(key): the value, or None when the key is absent.
Get(d, key) == IF key \in DOMAIN d THEN Some(d[key]) ELSE None

\* dict.get(key, default).
GetOr(d, key, default) == IF key \in DOMAIN d THEN d[key] ELSE default

\* The empty dict {} .
EmptyDict == [k \in {} |-> None]

\* d with key set to v (d[key] = v).
SetItem(d, key, v) == [k \in DOMAIN d \cup {key} |-> IF k = key THEN v ELSE d[k]]

\* The keys of a dict comprehension {e["id"]: ... for e in list}.
Ids(list) == {list[i].id : i \in 1..Len(list)}

\* The entry a dict comprehension keeps for key k: the last one in the list.
LastWith(list, k) ==
    list[CHOOSE i \in 1..Len(list) :
            /\ list[i].id = k
            /\ \A j \in (i + 1)..Len(list) : list[j].id # k]

\* Sequences over S of length 0..n.
SeqUpTo(S, n) == UNION {[1..k -> S] : k \in 0..n}

\* The elements of a list.
Elems(list) == {list[i] : i \in 1..Len(list)}

\* The truth value of an optional string (`if x:`): None and the empty
\* string are false.
Truthy(x) == x # None /\ x[1] # ""


-----------------------------------------------------------------------------
(* Entity model and topology builder.                                      *)

\* NetatmoModule.__init__ (the home back-reference is the enclosing home).
NetatmoModule(module) ==
    [entity_id     |-> module.id,
     name          |-> module.name,
     device_type   |-> module.type,
     room_id       |-> Get(module, "room_id"),
     reachable     |-> FALSE,
     bridge        |-> Get(module, "bridge"),
     modules       |-> GetOr(module, "modules_bridged", << >>),
     battery_state |-> None,
     battery_level |-> None,
     boiler_status |-> None]

\* A variant that takes the descriptor's module_ids as they are, without
\* filtering them on the modules of the home.
NetatmoRoomUnfiltered(room, all_modules) ==
    [entity_id                  |-> room.id,
     name                       |-> room.name,
     modules                    |-> Elems(GetOr(room, "module_ids", << >>)),
     reachable                  |-> FALSE,
     therm_setpoint_temperature |-> None,
     therm_setpoint_mode        |-> None,
     therm_measured_temperature |-> None,
     heating_power_request      |-> None]

\* NetatmoRoom.__init__: modules is the key set of the filtered dict.
NetatmoRoom(room, all_modules) ==
    [entity_id                  |-> room.id,
     name                       |-> room.name,
     modules                    |-> {m_id \in DOMAIN all_modules :
                                       m_id \in Elems(GetOr(room, "module_ids", << >>))},
     reachable                  |-> FALSE,
     therm_setpoint_temperature |-> None,
     therm_setpoint_mode        |-> None,
     therm_measured_temperature |-> None,
     heating_power_request      |-> None]

\* NetatmoSchedule.__init__.
NetatmoSchedule(home_id, raw_data) ==
    [entity_id |-> raw_data.id,
     name      |-> raw_data.name,
     home_id   |-> home_id,
     selected  |-> GetOr(raw_data, "selected", FALSE),
     hg_temp   |-> Get(raw_data, "hg_temp"),
     away_temp |-> Get(raw_data, "away_temp")]

\* NetatmoHome.__init__: modules first, then rooms filtered on them, then
\* schedules.
NetatmoHome(raw_data) ==
    LET mods   == GetOr(raw_data, "modules", << >>)
        rms    == GetOr(raw_data, "rooms", << >>)
        scheds == GetOr(raw_data, "schedules", << >>)
        modules == [k \in Ids(mods) |-> NetatmoModule(LastWith(mods, k))]
    IN  [entity_id |-> raw_data.id,
         name      |-> GetOr(raw_data, "name", "Unknown"),
         modules   |-> modules,
         rooms     |-> [k \in Ids(rms) |-> NetatmoRoom(LastWith(rms, k), modules)],
         schedules |-> [k \in Ids(scheds) |->
                          NetatmoSchedule(raw_data.id, LastWith(scheds, k))]]

\* NetatmoHome.is_valid_schedule.
IsValidSchedule(home, schedule_id) == schedule_id \in DOMAIN home.schedules

-----------------------------------------------------------------------------
(* Status reconciler.  A reconciliation in progress is a record            *)
(* [home, res, trace]: the home as written so far, "ok" or the exception   *)
(* raised, and the update routines applied so far, in order.               *)

Applied(kind, id, raw) == [kind |-> kind, id |-> id, raw |-> raw]

\* A variant that keeps the value a room field holds when the payload lacks
\* its key (merge-if-present).
RoomUpdateMerge(room, raw_data) ==
    [room EXCEPT
        !.reachable                  = GetOr(raw_data, "reachable", @),
        !.therm_measured_temperature = IF "therm_measured_temperature" \in DOMAIN raw_data
                                       THEN Some(raw_data.therm_measured_temperature) ELSE @,
        !.therm_setpoint_mode        = IF "therm_setpoint_mode" \in DOMAIN raw_data
                                       THEN Some(raw_data.therm_setpoint_mode) ELSE @,
        !.therm_setpoint_temperature = IF "therm_setpoint_temperature" \in DOMAIN raw_data
                                       THEN Some(raw_data.therm_setpoint_temperature) ELSE @]

\* NetatmoRoom.update: overwrite with the payload's value or the default.
RoomUpdate(room, raw_data) ==
    [room EXCEPT
        !.reachable                  = GetOr(raw_data, "reachable", FALSE),
        !.therm_measured_temperature = Get(raw_data, "therm_measured_temperature"),
        !.therm_setpoint_mode        = Get(raw_data, "therm_setpoint_mode"),
        !.therm_setpoint_temperature = Get(raw_data, "therm_setpoint_temperature")]

\* self.home.rooms[room_id].update(raw_data) on the reconciliation acc.
ApplyRoom(acc, room_id, raw_data) ==
    IF room_id \notin DOMAIN acc.home.rooms
    THEN [acc EXCEPT !.res = "KeyError"]
    ELSE [acc EXCEPT
            !.home.rooms[room_id] = RoomUpdate(@, raw_data),
            !.trace = Append(@, Applied("room", room_id, raw_data))]

\* A variant that keeps the value a field holds when the payload lacks its
\* key (merge-if-present).
ModuleFieldsMerge(module, raw_data) ==
    [module EXCEPT
        !.reachable     = GetOr(raw_data, "reachable", @),
        !.boiler_status = IF "boiler_status" \in DOMAIN raw_data
                          THEN Some(raw_data.boiler_status) ELSE @,
        !.battery_level = IF "battery_level" \in DOMAIN raw_data
                          THEN Some(raw_data.battery_level) ELSE @,
        !.battery_state = IF "battery_state" \in DOMAIN raw_data
                          THEN Some(raw_data.battery_state) ELSE @]

\* A variant that also takes the bridge from the status entry, as it does
\* the status fields.
ModuleFieldsRebinds(module, raw_data) ==
    [module EXCEPT
        !.reachable     = GetOr(raw_data, "reachable", FALSE),
        !.boiler_status = Get(raw_data, "boiler_status"),
        !.battery_level = Get(raw_data, "battery_level"),
        !.battery_state = Get(raw_data, "battery_state"),
        !.bridge        = Get(raw_data, "bridge")]

\* The four assignments of NetatmoModule.update (lines 219-222).
ModuleFields(module, raw_data) ==
    [module EXCEPT
        !.reachable     = GetOr(raw_data, "reachable", FALSE),
        !.boiler_status = Get(raw_data, "boiler_status"),
        !.battery_level = Get(raw_data, "battery_level"),
        !.battery_state = Get(raw_data, "battery_state")]

\* A variant that tests reachable before the assignments are made.
CascadesOnPrior(before, after) == ~before.reachable

\* The condition of line 224, on the module as it was before and as it is
\* after the assignments: the cascade runs when the module is unreachable.
Cascades(before, after) == ~after.reachable

\* What a call of NetatmoModule.update does at nesting depth `depth` when
\* the interpreter has no frame left for it.
Overflow(acc) == [acc EXCEPT !.res = "RecursionError"]

RECURSIVE ModuleUpdate(_, _, _, _), Bridged(_, _, _, _, _)

\* NetatmoModule.update of module mid (a key of acc.home.modules).
ModuleUpdate(acc, mid, raw_data, depth) ==
    IF depth > RecursionLimit THEN Overflow(acc)
    ELSE LET before == acc.home.modules[mid]
             after  == ModuleFields(before, raw_data)
             acc1   == [acc EXCEPT
                          !.home.modules[mid] = after,
                          !.trace = Append(@, Applied("module", mid, raw_data))]
         IN  IF Cascades(before, after)
             THEN Bridged(acc1, after.modules, 1, raw_data, depth)
             ELSE acc1

\* The loop of lines 226-230 from its i-th iteration on.
Bridged(acc, ids, i, raw_data, depth) ==
    IF i > Len(ids) THEN acc
    ELSE IF ids[i] \notin DOMAIN acc.home.modules
    THEN [acc EXCEPT !.res = "KeyError"]
    ELSE LET acc1 == ModuleUpdate(acc, ids[i], raw_data, depth + 1)
             room_id == acc1.home.modules[ids[i]].room_id
         IN  IF acc1.res # "ok" THEN acc1
             ELSE IF ~Truthy(room_id)
             THEN Bridged(acc1, ids, i + 1, raw_data, depth)
             ELSE LET acc2 == ApplyRoom(acc1, room_id[1], raw_data)
                  IN  IF acc2.res # "ok" THEN acc2
                      ELSE Bridged(acc2, ids, i + 1, raw_data, depth)

\* A variant that skips a module id the home does not know.
ApplyModuleSkipsUnknown(acc, id, raw_data) ==
    IF id \notin DOMAIN acc.home.modules
    THEN acc
    ELSE ModuleUpdate(acc, id, raw_data, 1)

\* self.modules[id].update(raw) as NetatmoHome.update calls it.
ApplyModule(acc, id, raw_data) ==
    IF id \notin DOMAIN acc.home.modules
    THEN [acc EXCEPT !.res = "KeyError"]
    ELSE ModuleUpdate(acc, id, raw_data, 1)

\* The loop of lines 89-90 from its i-th entry on.
RECURSIVE ErrorsLoop(_, _, _)
ErrorsLoop(acc, errors, i) ==
    IF i > Len(errors) \/ acc.res # "ok" THEN acc
    ELSE ErrorsLoop(ApplyModule(acc, errors[i].id, EmptyDict), errors, i + 1)

\* The loop of lines 94-95 from its i-th entry on.
RECURSIVE ModulesLoop(_, _, _)
ModulesLoop(acc, entries, i) ==
    IF i > Len(entries) \/ acc.res # "ok" THEN acc
    ELSE ModulesLoop(ApplyModule(acc, entries[i].id, entries[i]), entries, i + 1)

\* The loop of lines 97-98 from its i-th entry on.
RECURSIVE RoomsLoop(_, _, _)
RoomsLoop(acc, entries, i) ==
    IF i > Len(entries) \/ acc.res # "ok" THEN acc
    ELSE RoomsLoop(ApplyRoom(acc, entries[i].id, entries[i]), entries, i + 1)

\* A variant that applies the room entries before the module entries.
HomeUpdateRoomsFirst(home, raw_data) ==
    LET acc0 == [home |-> home, res |-> "ok", trace |-> << >>]
    IN  IF "errors" \notin DOMAIN raw_data
        THEN [acc0 EXCEPT !.res = "KeyError"]
        ELSE LET data == raw_data.home
                 acc1 == ErrorsLoop(acc0, raw_data.errors, 1)
                 acc2 == RoomsLoop(acc1, GetOr(data, "rooms", << >>), 1)
             IN  ModulesLoop(acc2, GetOr(data, "modules", << >>), 1)

\* NetatmoHome.update: errors, then home.modules, then home.rooms; the
\* first exception ends the call and keeps what was written before it.
HomeUpdate(home, raw_data) ==
    LET acc0 == [home |-> home, res |-> "ok", trace |-> << >>]
    IN  IF "errors" \notin DOMAIN raw_data
        THEN [acc0 EXCEPT !.res = "KeyError"]
        ELSE LET data == raw_data.home
                 acc1 == ErrorsLoop(acc0, raw_data.errors, 1)
                 acc2 == ModulesLoop(acc1, GetOr(data, "modules", << >>), 1)
             IN  RoomsLoop(acc2, GetOr(data, "rooms", << >>), 1)

-----------------------------------------------------------------------------
(* Registry.                                                               *)

\* dict.update(other) on an entry of the class attribute.  Such an entry is
\* a plain dict that no method reads; it is kept as its key set.
DictUpdate(keys, other) == keys \cup DOMAIN other

\* The attribute lookup self.homes finds the instance attribute once
\* process() has assigned it (line 258), and the class attribute before.
HasOwnHomes == selfHomes # None

Homes == IF HasOwnHomes THEN selfHomes[1] ELSE classHomes

\* The home map another instance that has assigned nothing sees.
HomesOfOther == classHomes

\* self.homes[key] on the class attribute: defaultdict(dict) inserts an empty
\* dict for a missing key and returns it.
DefaultDictGet(d, key) == IF key \in DOMAIN d THEN d ELSE SetItem(d, key, {})

\* The outcome of a call: the two home maps after it, "ok" or the exception
\* raised, and the update routines applied.
Outcome(cls, own, res, trace) == [cls |-> cls, own |-> own, res |-> res, trace |-> trace]

\* Line 254 when self.homes is the class attribute: the defaultdict hands
\* out a plain dict (inserting it when the id is new) and .update is
\* dict.update.
ReconcileDefault(cls, own, raw_data) ==
    LET id == raw_data.home.id
        d  == DefaultDictGet(cls, id)
    IN  Outcome([d EXCEPT ![id] = DictUpdate(@, raw_data)], own, "ok", << >>)

\* A variant that reconciles a copy of the home and stores it only when the
\* reconciliation raised nothing.
ReconcileOwnCommitsOnSuccess(cls, own, raw_data) ==
    LET id == raw_data.home.id
    IN  IF id \notin DOMAIN own[1]
        THEN Outcome(cls, own, "KeyError", << >>)
        ELSE LET acc == HomeUpdate(own[1][id], raw_data)
             IN  IF acc.res = "ok"
                 THEN Outcome(cls, Some([own[1] EXCEPT ![id] = acc.home]), acc.res, acc.trace)
                 ELSE Outcome(cls, own, acc.res, acc.trace)

\* Line 254 when self.homes is the dict process() built: a missing id raises
\* KeyError, a present one is reconciled by NetatmoHome.update.
ReconcileOwn(cls, own, raw_data) ==
    LET id == raw_data.home.id
    IN  IF id \notin DOMAIN own[1]
        THEN Outcome(cls, own, "KeyError", << >>)
        ELSE LET acc == HomeUpdate(own[1][id], raw_data)
             IN  Outcome(cls, Some([own[1] EXCEPT ![id] = acc.home]), acc.res, acc.trace)

\* A variant that merges into the dict it holds: a home already registered
\* is kept as it is and a home absent from the payload stays.
RebuildMerges(cls, own, raw_data) ==
    LET old == IF own = None THEN EmptyDict ELSE own[1]
    IN  Outcome(cls,
                Some([k \in DOMAIN old \cup Ids(raw_data.homes) |->
                        IF k \in DOMAIN old THEN old[k]
                        ELSE NetatmoHome(LastWith(raw_data.homes, k))]),
                "ok", << >>)

\* Lines 258-260: self.homes becomes a new dict of new homes.
Rebuild(cls, own, raw_data) ==
    Outcome(cls,
            Some([k \in Ids(raw_data.homes) |-> NetatmoHome(LastWith(raw_data.homes, k))]),
            "ok", << >>)

\* A variant that reads the homes list with a default and rebuilds from it.
UnrecognizedRebuilds(cls, own, raw_data) == Outcome(cls, Some(EmptyDict), "ok", << >>)

\* The implicit else of process(): nothing is done.
Unrecognized(cls, own, raw_data) == Outcome(cls, own, "ok", << >>)

\* AbstractClimate.process(raw_data).
ProcessOutcome(cls, own, raw_data) ==
    IF "home" \in DOMAIN raw_data
    THEN IF own = None THEN ReconcileDefault(cls, own, raw_data)
         ELSE ReconcileOwn(cls, own, raw_data)
    ELSE IF "homes" \in DOMAIN raw_data THEN Rebuild(cls, own, raw_data)
    ELSE Unrecognized(cls, own, raw_data)

\* A module or room that holds a status other than the one it is built with.
LiveModule(m) ==
    m.reachable \/ m.boiler_status # None \/ m.battery_level # None
        \/ m.battery_state # None

LiveRoom(r) ==
    r.reachable \/ r.therm_measured_temperature # None
        \/ r.therm_setpoint_mode # None \/ r.therm_setpoint_temperature # None

\* What a call finds: the keys of self.homes, and whether some module of a
\* home holds a status.
Before ==
    [keys |-> DOMAIN Homes,
     live |-> /\ HasOwnHomes
              /\ \E h \in DOMAIN Homes : \E m \in DOMAIN Homes[h].modules :
                    LiveModule(Homes[h].modules[m])]

\* What the last call was: its name, its arguments, what it found, how it
\* ended, the update routines it applied and the requests it sent.
Call(op, args, before, res, trace, sent) ==
    [op |-> op, args |-> args, before |-> before, res |-> res, trace |-> trace,
     sent |-> sent]

\* AbstractClimate.process(raw_data).
Process(raw_data) ==
    \E out \in {ProcessOutcome(classHomes, selfHomes, raw_data)} :
        /\ classHomes' = out.cls
        /\ selfHomes' = out.own
        /\ last' = Call("process", raw_data, Before, out.res, out.trace, << >>)
        /\ tasks' = tasks

-----------------------------------------------------------------------------
(* Refresh cycle.  The transport answers each request with a response or  *)
(* fails; a refresh is given what it would get, in the order it asks.      *)

\* A failure of the transport (a network error in post_request, malformed
\* JSON in resp.json()): the call raises and core code handles nothing.
TransportError == [raises |-> "TransportError"]

Raised(resp) == "raises" \in DOMAIN resp

\* extract_raw_data_new(resp.json(), tag): the payload found under the
\* envelope key of a response to the request for `tag`, which has the key
\* `tag` ("homes" for the topology request, "home" for the status request).
\* For a response of another shape the result is not fixed.
ExtractRawDataNew(resp, tag) == CHOOSE raw_data \in {resp.body} : tag \in DOMAIN raw_data

\* A request handed to auth.post_request / auth.async_post_request.
Request(url, params) == [url |-> url, params |-> params]

TopologyRequest == Request("_GETHOMESDATA_REQ", EmptyDict)

StatusRequest == Request("_GETHOMESTATUS_REQ", EmptyDict)

\* The outcome of a refresh: the outcome of its last step and the requests
\* sent.
Refreshed(out, sent) ==
    [cls |-> out.cls, own |-> out.own, res |-> out.res, trace |-> out.trace,
     sent |-> sent]

\* What follows a request (lines 350-353, 357-360, 279-281, 285-287): an
\* exception of the transport leaves the method; a response is unwrapped and
\* handed to process().
Fetched(cls, own, resp, tag) ==
    IF Raised(resp) THEN Outcome(cls, own, resp.raises, << >>)
    ELSE ProcessOutcome(cls, own, ExtractRawDataNew(resp, tag))

\* A variant that asks for the topology only while none was ever built
\* (`self.homes` tested for being set, not for being empty).
NoHomesNeverBuilt(cls, own) == own = None /\ DOMAIN cls = {}

\* `not self.homes`: the home map in use is empty.
NoHomes(cls, own) == IF own = None THEN DOMAIN cls = {} ELSE DOMAIN own[1] = {}

\* Climate.update_topology (lines 355-360).
UpdateTopology(cls, own, topology) == Fetched(cls, own, topology, "homes")

\* Climate.update (lines 345-353), blocking: an exception raised by
\* update_topology() leaves update() before the status request is sent.
UpdateOutcome(cls, own, topology, status) ==
    IF NoHomes(cls, own)
    THEN LET t == UpdateTopology(cls, own, topology)
         IN  IF t.res # "ok"
             THEN Refreshed(t, <<TopologyRequest>>)
             ELSE Refreshed(Fetched(t.cls, t.own, status, "home"),
                            <<TopologyRequest, StatusRequest>>)
    ELSE Refreshed(Fetched(cls, own, status, "home"), <<StatusRequest>>)

\* A variant in which the topology coroutine is created but never awaited:
\* its request and its process() call do not happen.
AsyncUpdateTopologyNotAwaited(cls, own, topology) == Outcome(cls, own, "ok", << >>)

\* AsyncClimate.async_update_topology (lines 283-287) from the moment the
\* transport answers.
AsyncUpdateTopology(cls, own, topology) == Fetched(cls, own, topology, "homes")

\* The responses a refresh consumed: one for each request it sent.
Consumed(sent, topology, status) ==
    IF sent[1] = StatusRequest THEN <<status>>
    ELSE IF Len(sent) = 1 THEN <<topology>>
    ELSE <<topology, status>>

\* Climate.update().
Update(topology, status) ==
    \E out \in {UpdateOutcome(classHomes, selfHomes, topology, status)} :
        /\ classHomes' = out.cls
        /\ selfHomes' = out.own
        /\ last' = Call("update", Consumed(out.sent, topology, status), Before,
                        out.res, out.trace, out.sent)
        /\ tasks' = tasks

\* Climate.update_topology() called by itself.
CallUpdateTopology(topology) ==
    \E out \in {UpdateTopology(classHomes, selfHomes, topology)} :
        /\ classHomes' = out.cls
        /\ selfHomes' = out.own
        /\ last' = Call("update_topology", <<topology>>, Before, out.res, out.trace,
                        <<TopologyRequest>>)
        /\ tasks' = tasks

\* A coroutine of the instance: where it is suspended ("idle": it is not
\* running), the method it runs, what the method found when it was called,
\* the requests it has sent, and the responses it has consumed (a refresh)
\* or the arguments it was called with (a command).  The two awaits of one
\* request of a refresh (the post and resp.json()) are one suspension: the
\* coroutine reads and writes nothing of the instance between them, and
\* either failure is the same TransportError.  `start` is the pair of home
\* maps a refresh was called on, kept while no other coroutine has run on
\* the instance since; a command keeps none.
Task(pc, op, before, sent, args, start) ==
    [pc |-> pc, op |-> op, before |-> before, sent |-> sent, args |-> args,
     start |-> start]

Idle == Task("idle", "", [keys |-> {}, live |-> FALSE], << >>, << >>, None)

\* The home maps a coroutine is called on.
Start == Some([cls |-> classHomes, own |-> selfHomes])

\* The coroutines as they are after coroutine t ran up to its next await
\* and became `next`: the others have no longer run undisturbed.
Resumed(t, next) ==
    [u \in TaskIds |-> IF u = t THEN next ELSE [tasks[u] EXCEPT !.start = None]]

\* A coroutine that returned or raised: its call is the last one made.
Finished(t, response, out) ==
    /\ tasks' = Resumed(t, Idle)
    /\ last' = Call(tasks[t].op, Append(tasks[t].args, response), tasks[t].before,
                    out.res, out.trace, tasks[t].sent)

\* AsyncClimate.async_update() up to its first await: line 276 is tested
\* and the first request is sent (line 285 through line 277, or line 279).
AsyncUpdate(t) ==
    /\ tasks[t].pc = "idle"
    /\ tasks' = [tasks EXCEPT ![t] =
                    IF NoHomes(classHomes, selfHomes)
                    THEN Task("topology", "async_update", Before,
                              <<TopologyRequest>>, << >>, Start)
                    ELSE Task("status", "async_update", Before,
                              <<StatusRequest>>, << >>, Start)]
    /\ UNCHANGED <<classHomes, selfHomes, last>>

\* AsyncClimate.async_update_topology() called by itself, up to its await.
CallAsyncUpdateTopology(t) ==
    /\ tasks[t].pc = "idle"
    /\ tasks' = [tasks EXCEPT ![t] =
                    Task("topology", "async_update_topology", Before,
                         <<TopologyRequest>>, << >>, Start)]
    /\ UNCHANGED <<classHomes, selfHomes, last>>

\* The transport answers the topology request: lines 286-287 run;
\* async_update then goes on to line 279 and suspends on the status
\* request, unless an exception was raised.
TopologyArrives(t, topology) ==
    /\ tasks[t].pc = "topology"
    /\ \E out \in {AsyncUpdateTopology(classHomes, selfHomes, topology)} :
          /\ classHomes' = out.cls
          /\ selfHomes' = out.own
          /\ IF tasks[t].op = "async_update" /\ out.res = "ok"
             THEN /\ tasks' = Resumed(t, [tasks[t] EXCEPT
                                            !.pc = "status",
                                            !.sent = Append(@, StatusRequest),
                                            !.args = Append(@, topology)])
                  /\ last' = last
             ELSE Finished(t, topology, out)

\* The transport answers the status request: lines 280-281 run and
\* async_update ends.
StatusArrives(t, status) ==
    /\ tasks[t].pc = "status"
    /\ \E out \in {Fetched(classHomes, selfHomes, status, "home")} :
          /\ classHomes' = out.cls
          /\ selfHomes' = out.own
          /\ Finished(t, status, out)

-----------------------------------------------------------------------------
(* Commands.                                                               *)

Digits == <<"0", "1", "2", "3", "4", "5", "6", "7", "8", "9">>

\* str(n) of a natural number.
RECURSIVE Str(_)
Str(n) == IF n < 10 THEN Digits[n + 1] ELSE Str(n \div 10) \o Digits[(n % 10) + 1]

\* The outcome of a command up to its first await: the class attribute
\* after it, the exception raised or "await" when the call is suspended on
\* the transport, and the requests sent.
Commanded(cls, res, sent) == [cls |-> cls, res |-> res, sent |-> sent]

\* self.homes[home_id].is_valid_schedule(schedule_id) on a home map that
\* has the key: an entry of the class attribute is a plain dict, which has
\* no such method.
ValidScheduleOf(own, home_id, schedule_id) ==
    IF own = None THEN "AttributeError"
    ELSE IF IsValidSchedule(own[1][home_id], schedule_id) THEN "valid"
    ELSE "invalid"

\* A variant that attaches the end time whenever one is given, whatever the
\* mode.
ThermmodeParamsAnyMode(home_id, mode, end_time, schedule_id) ==
    LET base == [home_id |-> home_id, mode |-> mode]
        e == IF end_time # None
             THEN SetItem(base, "endtime", Str(end_time[1])) ELSE base
    IN  IF schedule_id # None /\ mode = "schedule"
        THEN SetItem(e, "schedule_id", schedule_id[1]) ELSE e

\* Lines 308-313: the body of the set-mode request.
ThermmodeParams(home_id, mode, end_time, schedule_id) ==
    LET base == [home_id |-> home_id, mode |-> mode]
        e == IF end_time # None /\ mode \in {"hg", "away"}
             THEN SetItem(base, "endtime", Str(end_time[1])) ELSE base
    IN  IF schedule_id # None /\ mode = "schedule"
        THEN SetItem(e, "schedule_id", schedule_id[1]) ELSE e

\* Lines 297-306 of async_set_thermmode (mode and schedule_id are optional
\* values): "ok", or the exception raised before anything is sent.
SetThermmodeValidation(cls, own, home_id, mode, schedule_id) ==
    LET keys  == IF own = None THEN DOMAIN cls ELSE DOMAIN own[1]
        valid == ValidScheduleOf(own, home_id, schedule_id[1])
    IN  IF home_id \notin keys THEN "InvalidHome"
        ELSE IF schedule_id # None /\ valid = "AttributeError" THEN "AttributeError"
        ELSE IF schedule_id # None /\ valid = "invalid" THEN "NoSchedule"
        ELSE IF mode = None THEN "NoSchedule"
        ELSE "ok"

\* AsyncClimate.async_set_thermmode up to its first await (lines 297-318):
\* the exception raised, or "await" with the request handed to the
\* transport.
SetThermmodeCalled(cls, own, home_id, mode, end_time, schedule_id) ==
    LET checked == SetThermmodeValidation(cls, own, home_id, mode, schedule_id)
    IN  IF checked # "ok" THEN Commanded(cls, checked, << >>)
        ELSE Commanded(cls, "await",
                << Request("_SETTHERMMODE_REQ",
                           ThermmodeParams(home_id, mode[1], end_time, schedule_id)) >>)

\* AsyncClimate.async_switch_home_schedule up to its await (lines 324-330):
\* line 324 subscripts self.homes without a membership test.
SwitchHomeScheduleCalled(cls, own, home_id, schedule_id) ==
    IF own = None
    THEN Commanded(DefaultDictGet(cls, home_id), "AttributeError", << >>)
    ELSE IF home_id \notin DOMAIN own[1] THEN Commanded(cls, "KeyError", << >>)
    ELSE IF ~IsValidSchedule(own[1][home_id], schedule_id)
    THEN Commanded(cls, "NoSchedule", << >>)
    ELSE Commanded(cls, "await",
            << Request("_SWITCHHOMESCHEDULE_REQ",
                       [home_id |-> home_id, schedule_id |-> schedule_id]) >>)

\* What the transport may hand back for a command's request in place of a
\* response object: raw bytes.
Bytes == [bytes |-> "{}"]

IsBytes(resp) == "bytes" \in DOMAIN resp

\* Lines 315-319 once the awaited post is over: the transport's exception
\* leaves the call, and a bytes answer fails the assert of line 319.
SetThermmodePosted(resp) ==
    IF Raised(resp) THEN resp.raises
    ELSE IF IsBytes(resp) THEN "AssertionError"
    ELSE "ok"

\* Line 320 once the awaited resp.json() is over: the parsed body is
\* returned, or the exception of the parser leaves the call.
SetThermmodeParsed(parsed) == IF Raised(parsed) THEN parsed.raises ELSE "ok"

\* Lines 327-331 once the awaited post is over: the answer is logged,
\* whatever it is.
SwitchHomeSchedulePosted(resp) == IF Raised(resp) THEN resp.raises ELSE "ok"

\* A command that returned or raised: its call is the last one made.
Returned(t, res) ==
    /\ tasks' = Resumed(t, Idle)
    /\ last' = Call(tasks[t].op, tasks[t].args, tasks[t].before, res, << >>,
                    tasks[t].sent)

\* A command called as coroutine t ran up to its first await: it raised
\* (its call is over), or it is suspended on its request.
Commanding(t, op, args, out) ==
    IF out.res = "await"
    THEN /\ tasks' = Resumed(t, Task("post", op, Before, out.sent, args, None))
         /\ last' = last
    ELSE /\ tasks' = Resumed(t, Idle)
         /\ last' = Call(op, args, Before, out.res, << >>, out.sent)

\* AsyncClimate.async_set_thermmode(home_id, mode, end_time, schedule_id)
\* up to its first await.
AsyncSetThermmode(t, home_id, mode, end_time, schedule_id) ==
    /\ tasks[t].pc = "idle"
    /\ \E out \in {SetThermmodeCalled(classHomes, selfHomes, home_id, mode, end_time,
                                      schedule_id)} :
          /\ classHomes' = out.cls
          /\ selfHomes' = selfHomes
          /\ Commanding(t, "async_set_thermmode",
                        [home_id |-> home_id, mode |-> mode, end_time |-> end_time,
                         schedule_id |-> schedule_id],
                        out)

\* The post of async_set_thermmode is over (line 315): the call raises, or
\* goes on to await resp.json() (line 320).
SetThermmodeAnswered(t, resp) ==
    /\ tasks[t].pc = "post" /\ tasks[t].op = "async_set_thermmode"
    /\ UNCHANGED <<classHomes, selfHomes>>
    /\ IF SetThermmodePosted(resp) = "ok"
       THEN /\ tasks' = Resumed(t, [tasks[t] EXCEPT !.pc = "json"])
            /\ last' = last
       ELSE Returned(t, SetThermmodePosted(resp))

\* resp.json() of async_set_thermmode is over (line 320): the call returns
\* or raises.
SetThermmodeReturns(t, parsed) ==
    /\ tasks[t].pc = "json" /\ tasks[t].op = "async_set_thermmode"
    /\ UNCHANGED <<classHomes, selfHomes>>
    /\ Returned(t, SetThermmodeParsed(parsed))

\* AsyncClimate.async_switch_home_schedule(home_id, schedule_id) up to its
\* await.
AsyncSwitchHomeSchedule(t, home_id, schedule_id) ==
    /\ tasks[t].pc = "idle"
    /\ \E out \in {SwitchHomeScheduleCalled(classHomes, selfHomes, home_id,
                                            schedule_id)} :
          /\ classHomes' = out.cls
          /\ selfHomes' = selfHomes
          /\ Commanding(t, "async_switch_home_schedule",
                        [home_id |-> home_id, schedule_id |-> schedule_id], out)

\* The post of async_switch_home_schedule is over (line 327): the call
\* returns or raises.
SwitchHomeScheduleReturns(t, resp) ==
    /\ tasks[t].pc = "post" /\ tasks[t].op = "async_switch_home_schedule"
    /\ UNCHANGED <<classHomes, selfHomes>>
    /\ Returned(t, SwitchHomeSchedulePosted(resp))

-----------------------------------------------------------------------------
(* Inputs: the payloads the calls are made with.                           *)

\* A module descriptor of a topology payload; room_id and bridge are
\* optional keys (None: the key is absent).
ModuleDesc(id, type, room_id, bridge, modules_bridged) ==
    LET base == [id |-> id, name |-> id, type |-> type]
        r == IF room_id = None THEN base ELSE SetItem(base, "room_id", room_id[1])
        b == IF bridge = None THEN r ELSE SetItem(r, "bridge", bridge[1])
    IN  IF modules_bridged = << >> THEN b
        ELSE SetItem(b, "modules_bridged", modules_bridged)

RoomDesc(id, module_ids) == [id |-> id, name |-> id, module_ids |-> module_ids]

Schedules ==
    << [id |-> "s1", name |-> "week", selected |-> TRUE, hg_temp |-> 7, away_temp |-> 12],
       [id |-> "s2", name |-> "holiday"] >>

HomeDesc(id, modules, rooms) ==
    [id |-> id, name |-> "Home", modules |-> modules, rooms |-> rooms,
     schedules |-> Schedules]

\* A relay A bridging B and C, which share room R.
RelayHome ==
    HomeDesc("h1",
        << ModuleDesc("A", "NAPlug", None, None, <<"B", "C">>),
           ModuleDesc("B", "NATherm1", Some("R"), Some("A"), << >>),
           ModuleDesc("C", "NRV", Some("R"), Some("A"), << >>) >>,
        << RoomDesc("R", <<"B", "C">>), RoomDesc("S", << >>) >>)

\* A chain A -> B -> C -> D; A shares room R with the B it bridges; room S
\* lists a module Z that is no module of the home; D has the empty string
\* as room_id, which is the id of no room.
ChainHome ==
    HomeDesc("h1",
        << ModuleDesc("A", "OTH", Some("R"), None, <<"B">>),
           ModuleDesc("B", "OTM", Some("R"), Some("A"), <<"C">>),
           ModuleDesc("C", "NRV", Some("S"), Some("B"), <<"D">>),
           ModuleDesc("D", "NRV", Some(""), Some("C"), << >>) >>,
        << RoomDesc("R", <<"A", "B">>), RoomDesc("S", <<"Z", "C">>) >>)

\* A cyclic bridge graph: A bridges B and B bridges A.
CycleHome ==
    HomeDesc("h1",
        << ModuleDesc("A", "NAPlug", None, Some("B"), <<"B">>),
           ModuleDesc("B", "NATherm1", Some("R"), Some("A"), <<"A">>) >>,
        << RoomDesc("R", <<"B">>) >>)

\* Dangling ids: A bridges C, whose room Q is no room of the home; B bridges
\* Z, which is no module of the home; the home has no room R.
DanglingHome ==
    HomeDesc("h1",
        << ModuleDesc("A", "NAPlug", None, None, <<"C">>),
           ModuleDesc("B", "OTH", None, None, <<"Z", "C">>),
           ModuleDesc("C", "NRV", Some("Q"), Some("A"), << >>) >>,
        << RoomDesc("S", <<"C">>) >>)

\* No bridging and no module B; module A is listed twice (the later
\* descriptor is kept).
PlainHome ==
    HomeDesc("h1",
        << ModuleDesc("A", "NRV", Some("S"), None, << >>),
           ModuleDesc("A", "NATherm1", Some("R"), None, << >>) >>,
        << RoomDesc("R", <<"A">>), RoomDesc("S", << >>) >>)

\* A second home, described by its id alone.
OtherHome == [id |-> "h2"]

HomeDescs == {RelayHome, ChainHome, CycleHome, DanglingHome, PlainHome}

\* Topology payloads: {"homes": [...]} as /homesdata returns it: no home, one
\* home, two homes in either order, and one id described twice.
TopologyPayloads ==
    {[homes |-> hs] :
        hs \in {<< >>, <<OtherHome>>, <<RelayHome, ChainHome>>}
                 \cup {<<d>> : d \in HomeDescs}
                 \cup {<<RelayHome, OtherHome>>, <<OtherHome, PlainHome>>}}

\* Entries of the errors list of a status payload.
ErrorEntries == {[id |-> m, code |-> 6] : m \in {"A", "B"}}

\* A module that answers, and one that does not but still carries data
\* (among it a key the room update reads).
ReachableModule(id) ==
    [id |-> id, reachable |-> TRUE, boiler_status |-> TRUE,
     battery_level |-> 50, battery_state |-> "full"]

UnreachableModule(id) ==
    [id |-> id, reachable |-> FALSE, battery_level |-> 50,
     therm_setpoint_mode |-> "away"]

ModuleEntries == {ReachableModule(m) : m \in {"A", "B"}}
                    \cup {UnreachableModule(m) : m \in {"A", "B"}}

RoomEntries ==
    {[id |-> "R", reachable |-> TRUE, therm_measured_temperature |-> 19,
      therm_setpoint_mode |-> "home", therm_setpoint_temperature |-> 21],
     [id |-> "R", therm_setpoint_mode |-> "hg"]}

\* The home object of a status payload; an empty list is an absent key.
StatusHome(id, modules, rooms) ==
    LET base == [id |-> id]
        m == IF modules = << >> THEN base ELSE SetItem(base, "modules", modules)
    IN  IF rooms = << >> THEN m ELSE SetItem(m, "rooms", rooms)

\* Status payloads that name module B in errors and in home.modules, next to
\* an entry for the unreachable module A listed before or after B's, and one
\* that names room R as well.
OrderPayloads ==
    {[home |-> StatusHome("h1", <<ReachableModule("B"), UnreachableModule("A")>>, << >>),
      errors |-> <<[id |-> "B", code |-> 6]>>],
     [home |-> StatusHome("h1", <<UnreachableModule("A"), ReachableModule("B")>>, << >>),
      errors |-> <<[id |-> "B", code |-> 6]>>],
     [home |-> StatusHome("h1", <<ReachableModule("B"), UnreachableModule("A")>>,
                          <<[id |-> "R", reachable |-> TRUE,
                             therm_measured_temperature |-> 19,
                             therm_setpoint_mode |-> "home",
                             therm_setpoint_temperature |-> 21]>>),
      errors |-> <<[id |-> "B", code |-> 6]>>]}

\* Status payloads: {"home": {...}, "errors": [...]} as /homestatus returns
\* it, for home h1 with at most MaxEntries entries in all, one without the
\* errors key, and the payloads above.
StatusPayloads ==
    {[home |-> StatusHome("h1", ms, rs), errors |-> es] :
        <<es, ms, rs>> \in
            {t \in SeqUpTo(ErrorEntries, MaxEntries)
                     \X SeqUpTo(ModuleEntries, MaxEntries)
                     \X SeqUpTo(RoomEntries, MaxEntries) :
                Len(t[1]) + Len(t[2]) + Len(t[3]) <= MaxEntries}}
    \cup {[home |-> StatusHome("h1", <<ReachableModule("A")>>, << >>)]}
    \cup OrderPayloads

\* The status payloads the transport answers a refresh with: no entry, an
\* errors entry, a module that answers, one that does not (a cascade), and
\* a room.
RefreshStatusPayloads ==
    {[home |-> StatusHome("h1", << >>, << >>), errors |-> << >>],
     [home |-> StatusHome("h1", << >>, << >>), errors |-> <<[id |-> "B", code |-> 6]>>],
     [home |-> StatusHome("h1", <<ReachableModule("A")>>, << >>), errors |-> << >>],
     [home |-> StatusHome("h1", <<UnreachableModule("A")>>, << >>), errors |-> << >>],
     [home |-> StatusHome("h1", << >>, <<[id |-> "R", therm_setpoint_mode |-> "hg"]>>),
      errors |-> << >>]}

\* The topology payloads the transport answers a refresh with: no home, home
\* h1 with a relay, home h2, and both.
RefreshTopologyPayloads ==
    {[homes |-> hs] : hs \in {<< >>, <<RelayHome>>, <<OtherHome>>, <<RelayHome, OtherHome>>}}

\* Payloads with neither a home nor a homes key.
OtherPayloads == {EmptyDict, [errors |-> << >>], [status |-> "ok"]}

-----------------------------------------------------------------------------
(* Specification.                                                          *)

\* After construction: the class attribute is the empty defaultdict and the
\* instance has no homes attribute of its own.
Init ==
    /\ classHomes = EmptyDict
    /\ selfHomes = None
    /\ last = Call("init", << >>, [keys |-> {}, live |-> FALSE], "ok", << >>, << >>)
    /\ tasks = [t \in TaskIds |-> Idle]

Next ==
    \/ \E raw_data \in StatusPayloads : Process(raw_data)
    \/ \E raw_data \in TopologyPayloads : Process(raw_data)
    \/ \E raw_data \in OtherPayloads : Process(raw_data)

Spec == Init /\ [][Next]_vars

\* The responses of the transport: a JSON envelope around a payload.
Response(raw_data) == [body |-> raw_data]

\* Arguments of the commands.
HomeIdArgs == {"h1", "h2"}

ModeArgs == {None, Some("schedule"), Some("away"), Some("hg"), Some("manual")}

EndTimeArgs == {None, Some(0), Some(3600)}

ScheduleIdArgs == {"s1", "bogus"}

\* The topology response of a refresh that never asks for one.
Unasked == Response(EmptyDict)

\* What the transport may do with a topology request: answer it with a
\* topology, or fail.
TopologyResponses ==
    {Response(t) : t \in RefreshTopologyPayloads} \cup {TransportError}

\* What the transport may do with a status request: answer it with a
\* status, or fail.
StatusResponses ==
    {Response(s) : s \in RefreshStatusPayloads} \cup {TransportError}

\* No coroutine of the instance is suspended.
NoTask == \A t \in TaskIds : tasks[t].pc = "idle"

\* The refresh cycle alone.  A blocking call is made while no coroutine is
\* suspended and is given what it would get, in the order it asks; the
\* coroutines are resumed in any order, each with the transport's answer to
\* the request it waits on.
NextRefresh ==
    \/ /\ NoTask /\ NoHomes(classHomes, selfHomes)
       /\ \E topology \in TopologyResponses, status \in StatusResponses :
             Update(topology, status)
    \/ /\ NoTask /\ ~NoHomes(classHomes, selfHomes)
       /\ \E status \in StatusResponses : Update(Unasked, status)
    \/ /\ NoTask
       /\ \E topology \in TopologyResponses : CallUpdateTopology(topology)
    \/ \E t \in TaskIds : AsyncUpdate(t)
    \/ \E t \in TaskIds : CallAsyncUpdateTopology(t)
    \/ \E t \in TaskIds, topology \in TopologyResponses : TopologyArrives(t, topology)
    \/ \E t \in TaskIds, status \in StatusResponses : StatusArrives(t, status)

SpecRefresh == Init /\ [][NextRefresh]_vars

\* What the transport may do with the request of a command: answer it,
\* hand back bytes, or fail.
CommandResponses == {Response([status |-> "ok"]), Bytes, TransportError}

\* What resp.json() may do: give the parsed body, or fail.
ParsedBodies == {[status |-> "ok"], TransportError}

\* The coroutine that runs the commands.  A suspended command reads and
\* writes nothing of the instance, so one at a time shows all a command can
\* do and all that can be done to it.
CommandTaskIds == {"t1"}

\* The commands, on the registries the refresh topologies build (no home,
\* h1, h2, both); process() may be called while a command is suspended.
NextCommands ==
    \/ \E raw_data \in RefreshTopologyPayloads : Process(raw_data)
    \/ \E t \in CommandTaskIds, home_id \in HomeIdArgs, mode \in ModeArgs,
          end_time \in EndTimeArgs,
          schedule_id \in {None} \cup {Some(x) : x \in ScheduleIdArgs} :
            AsyncSetThermmode(t, home_id, mode, end_time, schedule_id)
    \/ \E t \in CommandTaskIds, resp \in CommandResponses : SetThermmodeAnswered(t, resp)
    \/ \E t \in CommandTaskIds, parsed \in ParsedBodies : SetThermmodeReturns(t, parsed)
    \/ \E t \in CommandTaskIds, home_id \in HomeIdArgs, schedule_id \in ScheduleIdArgs :
            AsyncSwitchHomeSchedule(t, home_id, schedule_id)
    \/ \E t \in CommandTaskIds, resp \in CommandResponses :
            SwitchHomeScheduleReturns(t, resp)

SpecCommands == Init /\ [][NextCommands]_vars

-----------------------------------------------------------------------------
(* Vocabulary of the properties.                                           *)

\* The last call was process() with a status payload / a topology payload /
\* a payload of neither shape.
StatusCall == last.op = "process" /\ "home" \in DOMAIN last.args

TopologyCall ==
    last.op = "process" /\ "home" \notin DOMAIN last.args /\ "homes" \in DOMAIN last.args

OtherCall ==
    last.op = "process" /\ "home" \notin DOMAIN last.args
        /\ "homes" \notin DOMAIN last.args

\* The last call was a status payload applied to a registered Home.
OnHome == StatusCall /\ HasOwnHomes /\ last.args.home.id \in last.before.keys

TheHome == Homes[last.args.home.id]

\* The ids a status payload lists.
ListedModuleIds(raw_data) ==
    Ids(GetOr(raw_data, "errors", << >>)) \cup Ids(GetOr(raw_data.home, "modules", << >>))

ListedRoomIds(raw_data) == Ids(GetOr(raw_data.home, "rooms", << >>))

\* The modules of the home that the modules in S bridge.
BridgedBy(home, S) ==
    {b \in DOMAIN home.modules : \E m \in S : b \in Elems(home.modules[m].modules)}

RECURSIVE Closure(_, _)
Closure(home, S) ==
    LET T == S \cup BridgedBy(home, S)
    IN  IF T = S THEN S ELSE Closure(home, T)

\* The modules reachable from module a through bridged ids, transitively.
Descendants(home, a) == Closure(home, BridgedBy(home, {a}))

Acyclic(home) == \A m \in DOMAIN home.modules : m \notin Descendants(home, m)

\* The status a module / a room is built with.
ModuleIsReset(m) == ~LiveModule(m)

RoomIsReset(r) == ~LiveRoom(r)

-----------------------------------------------------------------------------
(* Properties.                                                             *)

\* C1: reconciling one status payload terminates for every bridging graph,
\* cyclic ones included: the call never exhausts the interpreter's stack.
C1_ReconcileTerminates == StatusCall => last.res # "RecursionError"

\* C2: process() of a status payload whose home id is not a key of the
\* registry fails with InvalidHome and creates no entry, before and after a
\* topology payload has been processed.
C2_UnknownHomeIsInvalidHome ==
    (StatusCall /\ last.args.home.id \notin last.before.keys)
        => (last.res = "InvalidHome" /\ DOMAIN Homes = last.before.keys)

\* The listed ids that are no key of Home.modules / Home.rooms ended the
\* call with an error.
C3_ListedIdsSurface ==
    (\/ ~(ListedModuleIds(last.args) \subseteq DOMAIN TheHome.modules)
     \/ ~(ListedRoomIds(last.args) \subseteq DOMAIN TheHome.rooms))
        => last.res # "ok"

\* After a normal return every id the cascade went through is a key: the
\* bridged ids, and the room_id of each bridged module that has one.
C3_UnknownIdsSurface ==
    /\ C3_ListedIdsSurface
    /\ last.res = "ok" =>
          \A i \in 1..Len(last.trace) :
             (last.trace[i].kind = "module"
                 /\ ~GetOr(last.trace[i].raw, "reachable", FALSE))
             => \A b \in Elems(TheHome.modules[last.trace[i].id].modules) :
                   /\ b \in DOMAIN TheHome.modules
                   /\ \/ TheHome.modules[b].room_id = None
                      \/ TheHome.modules[b].room_id[1] \in DOMAIN TheHome.rooms

\* The same, for the room_ids that are not the empty string.
C3_NonEmptyIdsSurface ==
    /\ C3_ListedIdsSurface
    /\ last.res = "ok" =>
          \A i \in 1..Len(last.trace) :
             (last.trace[i].kind = "module"
                 /\ ~GetOr(last.trace[i].raw, "reachable", FALSE))
             => \A b \in Elems(TheHome.modules[last.trace[i].id].modules) :
                   /\ b \in DOMAIN TheHome.modules
                   /\ \/ ~Truthy(TheHome.modules[b].room_id)
                      \/ TheHome.modules[b].room_id[1] \in DOMAIN TheHome.rooms

C3_SameKeys(id) ==
    /\ DOMAIN Homes'[id].modules = DOMAIN Homes[id].modules
    /\ DOMAIN Homes'[id].rooms = DOMAIN Homes[id].rooms
    /\ DOMAIN Homes'[id].schedules = DOMAIN Homes[id].schedules

\* C3: a status update applied to a registered Home never creates entities:
\* a listed or cascaded id that is no key of Home.modules / Home.rooms ends
\* the call with an error, and the key sets of Home.modules, Home.rooms and
\* Home.schedules are the same after the call as before it.
C3_StatusNeverCreates ==
    [][OnHome' => (C3_UnknownIdsSurface' /\ C3_SameKeys(last'.args.home.id))]_vars

\* C3, amended: the same, except that a cascaded room_id that is the empty
\* string is taken as no room_id: it is skipped without a lookup, whether or
\* not the home has such a room.
C3_NonEmptyIdsNeverSkipped ==
    [][OnHome' => (C3_NonEmptyIdsSurface' /\ C3_SameKeys(last'.args.home.id))]_vars

\* C3 witness: a status payload on a registered Home whose listed ids are
\* all known ended with KeyError after applying updates: the unknown id was a
\* cascaded one.
C3_Witness ==
    /\ OnHome
    /\ last.res = "KeyError"
    /\ Len(last.trace) >= 1
    /\ ListedModuleIds(last.args) \subseteq DOMAIN TheHome.modules
    /\ ListedRoomIds(last.args) \subseteq DOMAIN TheHome.rooms

\* C4: registry state is per instance: no call on this instance changes the
\* home map another instance observes.
C4_PerInstance == [][HomesOfOther' = HomesOfOther]_vars

\* C5: status reconciliation is idempotent: after a status payload was
\* reconciled without error on a Home with an acyclic bridge graph,
\* reconciling the same payload again changes no status field.
C5_Idempotent ==
    (OnHome /\ last.res = "ok" /\ Acyclic(TheHome))
        => LET again == HomeUpdate(TheHome, last.args)
           IN  again.res = "ok" /\ again.home = TheHome

\* C5 witness: such a reconciliation that cascaded from an unreachable
\* module to bridged modules and a room.
C5_Witness ==
    /\ OnHome /\ last.res = "ok" /\ Acyclic(TheHome)
    /\ \E i \in 1..Len(last.trace) : last.trace[i].kind = "room"
    /\ Len(last.trace) >= 4
    /\ \E m \in DOMAIN TheHome.modules :
          ~TheHome.modules[m].reachable /\ TheHome.modules[m].battery_level = Some(50)

\* The one module entry of a status payload that lists nothing else.
SingleModuleCall ==
    /\ OnHome
    /\ "errors" \in DOMAIN last.args /\ last.args.errors = << >>
    /\ Len(GetOr(last.args.home, "modules", << >>)) = 1
    /\ "rooms" \notin DOMAIN last.args.home
    /\ last.args.home.modules[1].id \in DOMAIN TheHome.modules

TheEntry == last.args.home.modules[1]

ModuleHolds(m, raw) ==
    /\ ~m.reachable
    /\ m.boiler_status = Get(raw, "boiler_status")
    /\ m.battery_level = Get(raw, "battery_level")
    /\ m.battery_state = Get(raw, "battery_state")

RoomHolds(r, raw) ==
    /\ ~r.reachable
    /\ r.therm_measured_temperature = Get(raw, "therm_measured_temperature")
    /\ r.therm_setpoint_mode = Get(raw, "therm_setpoint_mode")
    /\ r.therm_setpoint_temperature = Get(raw, "therm_setpoint_temperature")

\* The cascade's result for the single entry: every module bridged by the
\* entry's module, transitively, and the room of each, holds the payload.
C6_Cascaded ==
    ~TheHome.modules[TheEntry.id].reachable =>
        \A m \in Descendants(TheHome, TheEntry.id) :
            /\ ModuleHolds(TheHome.modules[m], TheEntry)
            /\ \A r \in DOMAIN TheHome.rooms :
                  TheHome.modules[m].room_id = Some(r)
                      => RoomHolds(TheHome.rooms[r], TheEntry)

\* The room of the entry's own module is left as it was, unless it is also
\* the room of a module the cascade reaches.
C6_OwnRoomKept(id, a) ==
    \A r \in DOMAIN Homes[id].rooms :
        (/\ Homes[id].modules[a].room_id = Some(r)
         /\ \A m \in Descendants(Homes[id], a) : Homes[id].modules[m].room_id # Some(r))
            => Homes'[id].rooms[r] = Homes[id].rooms[r]

\* C6: when a module update for A leaves A unreachable, every module
\* reachable from A through bridged ids and the room of each holds the
\* payload's values right after that update; A's own room is not updated.
\* (Updates that stop at an id the home does not know are left aside.)
C6_CascadeRule ==
    [][(SingleModuleCall' /\ last'.res # "KeyError")
          => (C6_Cascaded' /\ C6_OwnRoomKept(last'.args.home.id, TheEntry'.id))]_vars

\* C7: while one status payload is reconciled, the update routine of each
\* module and of each room is applied at most once.
C7_AtMostOnce ==
    StatusCall =>
        \A i, j \in 1..Len(last.trace) :
            (i < j) => ~(/\ last.trace[i].kind = last.trace[j].kind
                         /\ last.trace[i].id = last.trace[j].id)

\* The raw dict of the last update applied to module x in the last call, as
\* a one-element set (empty when none was applied).
LastAppliedTo(kind, x) ==
    {last.trace[i].raw : i \in {i \in 1..Len(last.trace) :
        /\ last.trace[i].kind = kind /\ last.trace[i].id = x
        /\ \A j \in (i + 1)..Len(last.trace) :
              ~(last.trace[j].kind = kind /\ last.trace[j].id = x)}}

\* C8: applying an errors entry for a registered module X leaves X
\* unreachable with boiler_status, battery_level and battery_state unset,
\* whatever X held before (as long as no later entry of the payload
\* overwrites X).
C8_ErrorsEntryResets ==
    OnHome =>
        \A x \in Ids(GetOr(last.args, "errors", << >>)) \cap DOMAIN TheHome.modules :
            (\E raw \in LastAppliedTo("module", x) : DOMAIN raw = {})
                => ModuleIsReset(TheHome.modules[x])

\* C8 witness: the only module of the home held a status, the payload was
\* one errors entry for it, and the module is reset.
C8_Witness ==
    /\ OnHome /\ last.res = "ok"
    /\ last.before.live
    /\ DOMAIN TheHome.modules = {"A"}
    /\ Ids(last.args.errors) = {"A"}
    /\ "modules" \notin DOMAIN last.args.home
    /\ ModuleIsReset(TheHome.modules["A"])

\* C9: process() of a payload with neither a home nor a homes key raises
\* nothing and leaves the registry as it was.
C9_UnrecognizedIsNoOp ==
    [][OtherCall' => (/\ last'.res = "ok"
                      /\ classHomes' = classHomes
                      /\ selfHomes' = selfHomes)]_vars

\* C9 witness: such a payload was processed by a registry whose homes hold
\* statuses.
C9_Witness ==
    /\ OtherCall /\ last.res = "ok" /\ HasOwnHomes
    /\ \E h \in DOMAIN Homes : \E r \in DOMAIN Homes[h].rooms :
          Homes[h].rooms[r].reachable
    /\ \E h \in DOMAIN Homes : \E m \in DOMAIN Homes[h].modules :
          Homes[h].modules[m].reachable

\* C10: a topology payload replaces the registry: its keys are exactly the
\* ids of the payload's home list and every module and room is unreachable
\* with unset status fields.
C10_TopologyReplaces ==
    TopologyCall =>
        /\ HasOwnHomes
        /\ DOMAIN Homes = Ids(last.args.homes)
        /\ \A h \in DOMAIN Homes :
              /\ \A m \in DOMAIN Homes[h].modules : ModuleIsReset(Homes[h].modules[m])
              /\ \A r \in DOMAIN Homes[h].rooms : RoomIsReset(Homes[h].rooms[r])

\* C10 witness: a registry of two homes with a module that held a status
\* processed a topology payload naming one of them.
C10_Witness ==
    /\ TopologyCall
    /\ last.before.keys = {"h1", "h2"}
    /\ last.before.live
    /\ DOMAIN Homes = {"h1"}
    /\ DOMAIN Homes["h1"].modules # {}

\* The structural fields of a module, a room and a home: what the topology
\* builder sets and no status field.
ModuleStructure(m) ==
    [entity_id |-> m.entity_id, name |-> m.name, device_type |-> m.device_type,
     room_id |-> m.room_id, bridge |-> m.bridge, modules |-> m.modules]

RoomStructure(r) == [entity_id |-> r.entity_id, name |-> r.name, modules |-> r.modules]

HomeStructure(home) ==
    [entity_id |-> home.entity_id,
     name      |-> home.name,
     modules   |-> [m \in DOMAIN home.modules |-> ModuleStructure(home.modules[m])],
     rooms     |-> [r \in DOMAIN home.rooms |-> RoomStructure(home.rooms[r])],
     schedules |-> home.schedules]

\* C11: status reconciliation changes status fields only: a status payload
\* applied to a Home, whether the call succeeds or fails, leaves the
\* structural fields of every home of the registry (ids, names, device
\* types, room ids, bridges, bridged ids, room membership, schedules) as
\* they were, hence as the topology build set them.
C11_StatusKeepsStructure ==
    [][(StatusCall' /\ HasOwnHomes)
          => /\ HasOwnHomes'
             /\ DOMAIN Homes' = DOMAIN Homes
             /\ \A h \in DOMAIN Homes :
                   HomeStructure(Homes'[h]) = HomeStructure(Homes[h])]_vars

\* C11 witness: a status payload that failed after updating, through a
\* cascade, a module that has a bridge and a room.
C11_Witness ==
    /\ OnHome /\ last.res # "ok"
    /\ Len(last.trace) >= 2
    /\ \E m \in DOMAIN TheHome.modules :
          /\ TheHome.modules[m].bridge # None
          /\ TheHome.modules[m].room_id # None
          /\ TheHome.modules[m].battery_level = Some(50)
          /\ ~TheHome.modules[m].reachable

\* The descriptor a topology payload's list keeps for id k, and the ids and
\* module_ids it carries.
DescModuleIds(d) == Ids(GetOr(d, "modules", << >>))

DescRoomIds(d) == Ids(GetOr(d, "rooms", << >>))

DescRoomModuleIds(d, r) == Elems(GetOr(LastWith(d.rooms, r), "module_ids", << >>))

\* C12: in every registry state, the modules of every Room of every Home
\* are modules of that Home; right after a topology payload they are the
\* descriptor's module_ids that are module ids of the home, a module_ids
\* entry naming no module of the descriptor being left out without error.
C12_RoomModulesWithinHome ==
    /\ HasOwnHomes =>
          \A h \in DOMAIN Homes : \A r \in DOMAIN Homes[h].rooms :
             Homes[h].rooms[r].modules \subseteq DOMAIN Homes[h].modules
    /\ TopologyCall =>
          /\ last.res = "ok"
          /\ \A k \in Ids(last.args.homes) :
                LET d == LastWith(last.args.homes, k)
                IN  /\ DOMAIN Homes[k].rooms = DescRoomIds(d)
                    /\ \A r \in DescRoomIds(d) :
                          Homes[k].rooms[r].modules
                              = DescRoomModuleIds(d, r) \cap DescModuleIds(d)

\* C12 witness: a topology payload whose room S lists module Z, which the
\* descriptor's module list does not have, built room S without it.
C12_Witness ==
    /\ TopologyCall /\ last.res = "ok"
    /\ \E k \in Ids(last.args.homes) :
          LET d == LastWith(last.args.homes, k)
          IN  /\ "S" \in DescRoomIds(d)
              /\ "Z" \in DescRoomModuleIds(d, "S")
              /\ "Z" \notin DescModuleIds(d)
              /\ Homes[k].rooms["S"].modules = {"C"}

\* The last call that ended was the set-mode command.
SetThermmodeCall == last.op = "async_set_thermmode"

\* The schedule ids of the registry's entry for home_id; an entry that is
\* no Home (a plain dict of the class attribute) has none.
ScheduleIdsOf(home_id) ==
    IF HasOwnHomes /\ home_id \in DOMAIN Homes
    THEN DOMAIN Homes[home_id].schedules ELSE {}

\* Steps of a command op.  The call is made in this step and raises before
\* its await (no coroutine moves and the call is the last one ended), or it
\* is made in this step and suspends as coroutine t, or coroutine t goes on
\* from one await to the next, or coroutine t returns or raises.  In a step
\* that makes the call the registry the call finds is that of the step's
\* first state.
RaisesAtOnce(op) ==
    /\ \A t \in TaskIds : tasks'[t].pc = tasks[t].pc
    /\ last'.op = op

Suspends(t, op) == tasks[t].pc = "idle" /\ tasks'[t].pc = "post" /\ tasks'[t].op = op

GoesOn(t, op) == tasks[t].op = op /\ tasks[t].pc = "post" /\ tasks'[t].pc = "json"

Ends(t, op) == tasks[t].op = op /\ tasks[t].pc # "idle" /\ tasks'[t].pc = "idle"

\* What a suspended command keeps until it ends: its arguments, what it
\* found and the one request it sent.
KeepsItsCall(t, op) ==
    /\ GoesOn(t, op) =>
          /\ tasks'[t].args = tasks[t].args
          /\ tasks'[t].sent = tasks[t].sent
    /\ Ends(t, op) =>
          /\ last'.op = op
          /\ last'.args = tasks[t].args
          /\ last'.sent = tasks[t].sent
          /\ Len(last'.sent) = 1

\* The three failures of the set-mode command, for a call with arguments a
\* on the registry as it is.
UnknownHome(a) == a.home_id \notin DOMAIN Homes

BadSchedule(a) ==
    a.schedule_id # None /\ a.schedule_id[1] \notin ScheduleIdsOf(a.home_id)

\* C13: the set-mode command fails with InvalidHome when home_id is no key
\* of the registry, otherwise with NoSchedule when schedule_id is given and
\* is no schedule id of that home, otherwise with NoSchedule when mode is
\* unset; such a call sends no request and leaves the registry as it was.
C13_SetThermmodeValidates ==
    [][/\ RaisesAtOnce("async_set_thermmode") =>
             LET a == last'.args
             IN  /\ UnknownHome(a) => last'.res = "InvalidHome"
                 /\ (~UnknownHome(a) /\ BadSchedule(a)) => last'.res = "NoSchedule"
                 /\ (~UnknownHome(a) /\ ~BadSchedule(a) /\ a.mode = None)
                       => last'.res = "NoSchedule"
                 /\ last'.sent = << >>
                 /\ UNCHANGED <<classHomes, selfHomes>>
       /\ \A t \in TaskIds : Suspends(t, "async_set_thermmode") =>
             LET a == tasks'[t].args
             IN  ~UnknownHome(a) /\ ~BadSchedule(a) /\ a.mode # None]_vars

\* The decimal text of the end times the commands are called with.
EndTimeText(n) == IF n = 0 THEN "0" ELSE IF n = 3600 THEN "3600" ELSE "?"

\* A set-mode call with arguments a that finds its home id in the registry
\* and every given argument valid.
PassesValidation(a) == ~UnknownHome(a) /\ ~BadSchedule(a) /\ a.mode # None

\* The requests of a set-mode call with arguments a are one set-mode
\* request whose body has home_id and mode, has endtime (the end time as
\* text) exactly when end_time was given and mode is hg or away, has
\* schedule_id exactly when schedule_id was given and mode is schedule, and
\* has no other key.
OneSetThermmodeRequest(a, sent) ==
    /\ Len(sent) = 1
    /\ sent[1].url = "_SETTHERMMODE_REQ"
    /\ LET p == sent[1].params
       IN  /\ {"home_id", "mode"} \subseteq DOMAIN p
           /\ DOMAIN p \subseteq {"home_id", "mode", "endtime", "schedule_id"}
           /\ p.home_id = a.home_id
           /\ p.mode = a.mode[1]
           /\ "endtime" \in DOMAIN p
                 <=> (a.end_time # None /\ a.mode[1] \in {"hg", "away"})
           /\ "endtime" \in DOMAIN p => p.endtime = EndTimeText(a.end_time[1])
           /\ "schedule_id" \in DOMAIN p
                 <=> (a.schedule_id # None /\ a.mode[1] = "schedule")
           /\ "schedule_id" \in DOMAIN p => p.schedule_id = a.schedule_id[1]

\* C14: a set-mode call that passes validation sends exactly one request,
\* the set-mode request with the body above: it does not raise before its
\* await, the request it is suspended on is that one, and it has sent that
\* one and no other when it ends, however the transport answers.
C14_SetThermmodeRequest ==
    [][/\ RaisesAtOnce("async_set_thermmode") => ~PassesValidation(last'.args)
       /\ \A t \in TaskIds :
             /\ Suspends(t, "async_set_thermmode") =>
                   OneSetThermmodeRequest(tasks'[t].args, tasks'[t].sent)
             /\ KeepsItsCall(t, "async_set_thermmode")
             /\ Ends(t, "async_set_thermmode") =>
                   OneSetThermmodeRequest(last'.args, last'.sent)]_vars

\* C14 witness: set-mode away with end time 3600 and a valid schedule id on
\* a registered Home sent the body {home_id, mode, endtime: "3600"} and
\* returned.
C14_Witness ==
    /\ SetThermmodeCall /\ last.res = "ok" /\ HasOwnHomes
    /\ last.args.mode = Some("away")
    /\ last.args.end_time = Some(3600)
    /\ last.args.schedule_id = Some("s1")
    /\ Len(last.sent) = 1
    /\ last.sent[1].params = [home_id |-> "h1", mode |-> "away", endtime |-> "3600"]

\* C15: the switch-schedule command fails with NoSchedule and sends nothing
\* when home_id is a key of the registry and schedule_id is no schedule id
\* of that home; it sends exactly one request with body {home_id,
\* schedule_id} when schedule_id is valid; for a home_id that is no key of
\* the registry it fails, sends nothing and adds no entry to the registry.
C15_SwitchHomeSchedule ==
    [][/\ RaisesAtOnce("async_switch_home_schedule") =>
             LET a == last'.args
                 known == a.home_id \in DOMAIN Homes
                 valid == a.schedule_id \in ScheduleIdsOf(a.home_id)
             IN  /\ ~(known /\ valid)
                 /\ (known /\ ~valid) => last'.res = "NoSchedule"
                 /\ last'.sent = << >>
                 /\ ~known => DOMAIN Homes' = DOMAIN Homes
       /\ \A t \in TaskIds :
             /\ Suspends(t, "async_switch_home_schedule") =>
                   LET a == tasks'[t].args
                   IN  /\ a.home_id \in DOMAIN Homes
                       /\ a.schedule_id \in ScheduleIdsOf(a.home_id)
                       /\ tasks'[t].sent =
                             << Request("_SWITCHHOMESCHEDULE_REQ",
                                        [home_id |-> a.home_id,
                                         schedule_id |-> a.schedule_id]) >>
             /\ KeepsItsCall(t, "async_switch_home_schedule")]_vars

\* The last call was a refresh, blocking or suspending.
RefreshCall == last.op \in {"update", "async_update"}

\* A step in which coroutine t, running async_update with no other coroutine
\* run on the instance since it was called, returns or raises.
EndsUndisturbed(t) ==
    /\ tasks[t].op = "async_update"
    /\ tasks[t].pc # "idle" /\ tasks'[t].pc = "idle"
    /\ tasks[t].start # None

\* C16: the blocking refresh and the suspending refresh are equivalent: a
\* suspending refresh that runs from its call to its end with nothing else
\* run on the instance sends the requests, applies the updates, ends with
\* the result (normal return or the same error) and leaves the registry
\* that the blocking refresh does when it is called on the same registry and
\* given the same responses.
C16_RefreshModesAgree ==
    [][\A t \in TaskIds :
          EndsUndisturbed(t) =>
             LET c == last'
                 from == tasks[t].start[1]
                 topology == IF c.sent[1] = TopologyRequest THEN c.args[1] ELSE Unasked
                 status == c.args[Len(c.args)]
                 blocking == UpdateOutcome(from.cls, from.own, topology, status)
             IN  /\ c.sent = blocking.sent
                 /\ c.res = blocking.res
                 /\ c.trace = blocking.trace
                 /\ classHomes' = blocking.cls
                 /\ selfHomes' = blocking.own]_vars

\* C16 witness: a suspending refresh of an empty registry fetched the
\* topology, reconciled a status payload with a cascade, and left the
\* registry the blocking refresh builds from the same two responses.
C16_Witness ==
    /\ last.op = "async_update" /\ last.res = "ok"
    /\ last.before.keys = {}
    /\ Len(last.sent) = 2 /\ Len(last.args) = 2
    /\ Len(last.trace) >= 3
    /\ NoTask
    /\ UpdateOutcome(EmptyDict, None, last.args[1], last.args[2]).own = selfHomes

\* Module m / room r holds exactly what the entry raw says: the entry's
\* value for a key it has, false (reachable) or unset for a key it lacks.
ModuleReflects(m, raw) ==
    /\ m.reachable = ("reachable" \in DOMAIN raw /\ raw.reachable)
    /\ m.boiler_status = (IF "boiler_status" \in DOMAIN raw
                          THEN <<raw.boiler_status>> ELSE << >>)
    /\ m.battery_level = (IF "battery_level" \in DOMAIN raw
                          THEN <<raw.battery_level>> ELSE << >>)
    /\ m.battery_state = (IF "battery_state" \in DOMAIN raw
                          THEN <<raw.battery_state>> ELSE << >>)

RoomReflects(r, raw) ==
    /\ r.reachable = ("reachable" \in DOMAIN raw /\ raw.reachable)
    /\ r.therm_measured_temperature = (IF "therm_measured_temperature" \in DOMAIN raw
                                       THEN <<raw.therm_measured_temperature>> ELSE << >>)
    /\ r.therm_setpoint_mode = (IF "therm_setpoint_mode" \in DOMAIN raw
                                THEN <<raw.therm_setpoint_mode>> ELSE << >>)
    /\ r.therm_setpoint_temperature = (IF "therm_setpoint_temperature" \in DOMAIN raw
                                       THEN <<raw.therm_setpoint_temperature>> ELSE << >>)

\* C17: status updates overwrite, they do not merge: a module (a room) to
\* which entries were applied holds, for each of its four status fields, the
\* value of the last entry applied if the entry has the key and false
\* (reachable) or unset otherwise, whatever it held before; no update
\* changes a room's heating_power_request, which stays as built.
C17_OverwriteNotMerge ==
    /\ OnHome =>
          /\ \A x \in DOMAIN TheHome.modules : \A raw \in LastAppliedTo("module", x) :
                ModuleReflects(TheHome.modules[x], raw)
          /\ \A x \in DOMAIN TheHome.rooms : \A raw \in LastAppliedTo("room", x) :
                RoomReflects(TheHome.rooms[x], raw)
    /\ HasOwnHomes =>
          \A h \in DOMAIN Homes : \A r \in DOMAIN Homes[h].rooms :
             Homes[h].rooms[r].heating_power_request = None

\* C17 witness: one payload applied to room R an entry with all four keys
\* and then an entry with therm_setpoint_mode alone: R is unreachable, has
\* no temperatures and holds the second entry's mode.
C17_Witness ==
    /\ OnHome /\ last.res = "ok"
    /\ Len(GetOr(last.args.home, "rooms", << >>)) = 2
    /\ DOMAIN last.args.home.rooms[1] =
          {"id", "reachable", "therm_measured_temperature", "therm_setpoint_mode",
           "therm_setpoint_temperature"}
    /\ DOMAIN last.args.home.rooms[2] = {"id", "therm_setpoint_mode"}
    /\ last.args.home.rooms[1].id = "R" /\ last.args.home.rooms[2].id = "R"
    /\ ~TheHome.rooms["R"].reachable
    /\ TheHome.rooms["R"].therm_measured_temperature = None
    /\ TheHome.rooms["R"].therm_setpoint_temperature = None
    /\ TheHome.rooms["R"].therm_setpoint_mode = Some("hg")

\* A step in which a refresh ends: a blocking one (no coroutine moves), or
\* a coroutine running async_update that returns or raises.
RefreshEnds ==
    \/ tasks' = tasks /\ last'.op = "update"
    \/ \E t \in TaskIds :
          tasks[t].pc # "idle" /\ tasks'[t].pc = "idle" /\ tasks[t].op = "async_update"

\* The step leaves the keys and the structure of the home map as they are.
TopologyKept ==
    /\ HasOwnHomes' = HasOwnHomes
    /\ DOMAIN Homes' = DOMAIN Homes
    /\ HasOwnHomes =>
          \A h \in DOMAIN Homes : HomeStructure(Homes'[h]) = HomeStructure(Homes[h])

\* C18: in every refresh cycle the topology request is sent, and its
\* response processed, before the status request exactly when the registry
\* has no home at the start of the cycle; each cycle sends exactly one
\* status request; a refresh of a registry that has a home never rebuilds
\* the topology.
C18_RefreshOrder ==
    [][RefreshEnds =>
          IF last'.before.keys = {}
          THEN last'.sent = <<TopologyRequest, StatusRequest>>
          ELSE last'.sent = <<StatusRequest>> /\ TopologyKept]_vars

\* C18, amended: a cycle that starts with no home sends the topology request
\* first; when the transport fails on it, the cycle ends with that error and
\* sends no status request; otherwise its response is processed, the one
\* status request is sent and the cycle ends as that request's step ends.
\* A cycle that starts with a home sends the status request alone and
\* leaves the keys and the structure of the home map as they are.
C18_RefreshOrderUnlessTopologyFails ==
    [][RefreshEnds =>
          LET c == last'
              step == Fetched(classHomes, selfHomes, c.args[Len(c.args)],
                              IF c.sent[Len(c.sent)] = TopologyRequest
                              THEN "homes" ELSE "home")
              t == Fetched(classHomes, selfHomes, c.args[1], "homes")
              s == Fetched(t.cls, t.own, c.args[2], "home")
          IN  /\ Len(c.args) = Len(c.sent)
              /\ IF c.before.keys = {}
                 THEN \/ /\ c.sent = <<TopologyRequest>>
                         /\ c.res # "ok" /\ c.res = step.res
                         /\ selfHomes' = step.own
                      \/ /\ c.sent = <<TopologyRequest, StatusRequest>>
                         /\ IF tasks' # tasks
                            THEN c.res = step.res /\ selfHomes' = step.own
                            ELSE /\ t.res = "ok"
                                 /\ DOMAIN t.own[1] = Ids(c.args[1].body.homes)
                                 /\ c.res = s.res
                                 /\ selfHomes' = s.own
                 ELSE /\ c.sent = <<StatusRequest>>
                      /\ c.res = step.res
                      /\ TopologyKept]_vars

\* C18 witness: a suspending refresh of an empty registry sent the topology
\* request and then the status request, built home h1 and reconciled the
\* status response on it.
C18_Witness ==
    /\ last.op = "async_update" /\ last.res = "ok"
    /\ last.before.keys = {}
    /\ last.sent = <<TopologyRequest, StatusRequest>>
    /\ ~Raised(last.args[1])
    /\ HasOwnHomes /\ "h1" \in DOMAIN Homes
    /\ Len(last.trace) >= 2

\* A refresh cycle whose topology step raised: it sent the topology request
\* alone.
C18_TopologyStepRaised ==
    /\ RefreshCall /\ last.res = "TransportError"
    /\ last.before.keys = {}
    /\ last.sent = <<TopologyRequest>>

\* The position of the last entry for id k in a list.
LastIndex(list, k) ==
    CHOOSE i \in 1..Len(list) :
        /\ list[i].id = k
        /\ \A j \in (i + 1)..Len(list) : list[j].id # k

\* Some entry of the module list ms after position i is for an unreachable
\* module that bridges x, directly or through other modules.
OverwrittenLater(home, ms, i, x) ==
    \E j \in (i + 1)..Len(ms) :
        /\ ~GetOr(ms[j], "reachable", FALSE)
        /\ x \in Descendants(home, ms[j].id)

\* C19: within one status payload the entries are applied in the order
\* errors, home.modules in list order, home.rooms in list order, and the
\* last application wins: after a successful reconciliation every room named
\* in home.rooms holds the values of its last room entry, a cascade that
\* reset it earlier notwithstanding, and a module named in errors and in
\* home.modules holds the values of its last home.modules entry unless an
\* unreachable module listed after that entry bridges it.
C19_LastApplicationWins ==
    (OnHome /\ last.res = "ok") =>
        LET ms == GetOr(last.args.home, "modules", << >>)
            rs == GetOr(last.args.home, "rooms", << >>)
        IN  /\ \A r \in Ids(rs) : RoomReflects(TheHome.rooms[r], LastWith(rs, r))
            /\ \A x \in Ids(last.args.errors) \cap Ids(ms) :
                  \/ ModuleReflects(TheHome.modules[x], LastWith(ms, x))
                  \/ OverwrittenLater(TheHome, ms, LastIndex(ms, x), x)

\* C19 witness: one payload named B in errors, then B (reachable) and the
\* unreachable relay A in home.modules, then room R: the cascade from A
\* rewrote B after B's own entry and reset R, and R's own entry, applied
\* last, is what R holds.
C19_Witness ==
    /\ OnHome /\ last.res = "ok"
    /\ Ids(last.args.errors) = {"B"}
    /\ Len(GetOr(last.args.home, "modules", << >>)) = 2
    /\ last.args.home.modules[1].id = "B" /\ last.args.home.modules[1].reachable
    /\ last.args.home.modules[2].id = "A" /\ ~last.args.home.modules[2].reachable
    /\ "R" \in ListedRoomIds(last.args)
    /\ \E i \in 1..Len(last.trace) :
          last.trace[i].kind = "room" /\ last.trace[i].id = "R"
              /\ last.trace[i].raw.id = "A"
    /\ ~TheHome.modules["B"].reachable
    /\ TheHome.modules["B"].boiler_status = None
    /\ TheHome.rooms["R"].reachable
    /\ TheHome.rooms["R"].therm_setpoint_mode = Some("home")

\* A module named in errors and in home.modules after an unreachable module
\* that bridges it holds its own entry: the cascade came first.
C19_OwnEntryAfterCascade ==
    /\ OnHome /\ last.res = "ok"
    /\ Ids(last.args.errors) = {"B"}
    /\ Len(GetOr(last.args.home, "modules", << >>)) = 2
    /\ last.args.home.modules[1].id = "A" /\ ~last.args.home.modules[1].reachable
    /\ last.args.home.modules[2].id = "B"
    /\ "B" \in Descendants(TheHome, "A")
    /\ TheHome.modules["B"].reachable

\* The raw dict of the last update of the given kind that a trace applies to
\* x, as a one-element set (empty when it applies none).
LastRawIn(trace, kind, x) ==
    {trace[i].raw : i \in {i \in 1..Len(trace) :
        /\ trace[i].kind = kind /\ trace[i].id = x
        /\ \A j \in (i + 1)..Len(trace) :
              ~(trace[j].kind = kind /\ trace[j].id = x)}}

\* The status fields of a module and of a room.
ModuleStatus(m) ==
    [reachable |-> m.reachable, boiler_status |-> m.boiler_status,
     battery_level |-> m.battery_level, battery_state |-> m.battery_state]

RoomStatus(r) ==
    [reachable |-> r.reachable,
     therm_measured_temperature |-> r.therm_measured_temperature,
     therm_setpoint_mode |-> r.therm_setpoint_mode,
     therm_setpoint_temperature |-> r.therm_setpoint_temperature,
     heating_power_request |-> r.heating_power_request]

\* A status payload for a registered Home failed at an id (listed or
\* cascaded) that the home does not know.
FailedOnUnknownId ==
    /\ OnHome
    /\ "errors" \in DOMAIN last.args
    /\ last.res = "KeyError"

\* C20 as stated: status reconciliation is all-or-nothing: when a status
\* payload for a registered Home fails because an errors entry, module
\* entry, room entry or cascaded id is unknown, no status field of any module
\* or room of that Home differs from its value before the call.
C20_AllOrNothing ==
    [][FailedOnUnknownId' =>
          LET id == last'.args.home.id
          IN  /\ \A m \in DOMAIN Homes[id].modules :
                    ModuleStatus(Homes'[id].modules[m]) = ModuleStatus(Homes[id].modules[m])
              /\ \A r \in DOMAIN Homes[id].rooms :
                    RoomStatus(Homes'[id].rooms[r]) = RoomStatus(Homes[id].rooms[r])]_vars

\* C20 as amended: when a status payload for a registered Home fails at an
\* unknown id, the updates applied before the failing lookup keep their
\* effect and nothing after it is applied: a module or room to which no
\* update was applied before the failure has the status it had before the
\* call, and every other one holds the values of the last update applied
\* to it.
C20_FailureKeepsPrefix ==
    [][FailedOnUnknownId' =>
          LET id == last'.args.home.id
          IN  /\ \A m \in DOMAIN Homes[id].modules :
                    IF LastRawIn(last'.trace, "module", m) = {}
                    THEN ModuleStatus(Homes'[id].modules[m])
                            = ModuleStatus(Homes[id].modules[m])
                    ELSE \A raw \in LastRawIn(last'.trace, "module", m) :
                            ModuleReflects(Homes'[id].modules[m], raw)
              /\ \A r \in DOMAIN Homes[id].rooms :
                    IF LastRawIn(last'.trace, "room", r) = {}
                    THEN RoomStatus(Homes'[id].rooms[r]) = RoomStatus(Homes[id].rooms[r])
                    ELSE \A raw \in LastRawIn(last'.trace, "room", r) :
                            RoomReflects(Homes'[id].rooms[r], raw)]_vars

\* C20 witness: on a home whose modules held no status, a payload listing
\* module A (reachable) and then a module the home does not know failed, and
\* A holds the values of its entry.
C20_Witness ==
    /\ FailedOnUnknownId
    /\ ~last.before.live
    /\ Len(last.trace) = 1
    /\ last.trace[1] = Applied("module", "A", ReachableModule("A"))
    /\ Len(GetOr(last.args.home, "modules", << >>)) = 2
    /\ last.args.home.modules[2].id \notin DOMAIN TheHome.modules
    /\ TheHome.modules["A"].reachable
    /\ TheHome.modules["A"].battery_level = Some(50)

=============================================================================
